---- MODULE Spec2Model ----
(***************************************************************************)
(* Amana Bookstore Express API (src/server.js).                            *)
(*                                                                         *)
(* Two JSON documents (books.json, reviews.json) are read whole and        *)
(* written whole by every handler.  JavaScript values are tagged records,  *)
(* strings are sequences of one-character strings, and a JavaScript object *)
(* is a function from the keys it has to values, so that object spread     *)
(* ({...a, ...b}), parseInt, toString, toLowerCase and includes are        *)
(* computed the way the runtime computes them.                             *)
(***************************************************************************)
EXTENDS Integers, Sequences, FiniteSets, TLC

VARIABLES
    books,    \* data.books as stored in data/books.json
    reviews,  \* data.reviews as stored in data/reviews.json
    now,      \* the wall clock read by Date.now() / new Date()
    last,     \* the request served last and the response it got
    pc,       \* concurrent handlers: position of each request
    req,      \* concurrent handlers: the request each one serves
    data,     \* concurrent handlers: the handler's local `data.books`
    resp,     \* concurrent handlers: the response each one sent
    hist      \* concurrent handlers: order of file reads and writes

vars == <<books, reviews, now, last, pc, req, data, resp, hist>>

----------------------------------------------------------------------------
(* Bounds of the model *)

MaxBooks == 2      \* longest books collection explored
MaxReviews == 2    \* longest reviews collection explored
MaxClock == 2      \* last clock reading explored
MaxId == 4         \* largest id number a create may assign

----------------------------------------------------------------------------
(* JavaScript values *)

Undef == [t |-> "undef"]
NaN == [t |-> "nan"]
S(s) == [t |-> "str", s |-> s]
N(n) == [t |-> "num", n |-> n]
B(b) == [t |-> "bool", b |-> b]
Arr(a) == [t |-> "arr", a |-> a]

EmptyObj == <<>>

\* o[k], undefined when the object has no such key
Get(o, k) == IF k \in DOMAIN o THEN o[k] ELSE Undef

\* { ...a, ...b }
Spread(a, b) ==
    [k \in (DOMAIN a) \cup (DOMAIN b) |-> IF k \in DOMAIN b THEN b[k] ELSE a[k]]

\* !!v
Truthy(v) ==
    CASE v.t = "undef" -> FALSE
      [] v.t = "nan" -> FALSE
      [] v.t = "str" -> Len(v.s) > 0
      [] v.t = "num" -> v.n # 0
      [] v.t = "bool" -> v.b
      [] OTHER -> TRUE

\* a === b
StrictEq(a, b) == a.t # "nan" /\ a = b

DigitChars == <<"0", "1", "2", "3", "4", "5", "6", "7", "8", "9">>

IsDigit(c) == \E i \in 1..10 : DigitChars[i] = c

DigitVal(c) == (CHOOSE i \in 1..10 : DigitChars[i] = c) - 1

RECURSIVE NatToChars(_)
NatToChars(n) ==
    IF n < 10 THEN <<DigitChars[n + 1]>>
    ELSE NatToChars(n \div 10) \o <<DigitChars[(n % 10) + 1]>>

\* Number.prototype.toString for the numbers the handlers produce
NumToString(v) ==
    IF v.t = "nan" THEN S(<<"N", "a", "N">>)
    ELSE IF v.n < 0 THEN S(<<"-">> \o NatToChars(0 - v.n))
    ELSE S(NatToChars(v.n))

\* String(v) for the values that can be an id
ToStr(v) ==
    CASE v.t = "str" -> v
      [] v.t = "num" -> NumToString(v)
      [] v.t = "nan" -> NumToString(v)
      [] v.t = "bool" -> IF v.b THEN S(<<"t", "r", "u", "e">>)
                         ELSE S(<<"f", "a", "l", "s", "e">>)
      [] OTHER -> S(<<"u", "n", "d", "e", "f", "i", "n", "e", "d">>)

RECURSIVE SkipSpaces(_)
SkipSpaces(s) ==
    IF Len(s) > 0 /\ Head(s) = " " THEN SkipSpaces(Tail(s)) ELSE s

RECURSIVE DigitPrefix(_)
DigitPrefix(s) ==
    IF Len(s) > 0 /\ IsDigit(Head(s)) THEN <<Head(s)>> \o DigitPrefix(Tail(s))
    ELSE <<>>

RECURSIVE CharsToNat(_, _)
CharsToNat(s, acc) ==
    IF Len(s) = 0 THEN acc ELSE CharsToNat(Tail(s), acc * 10 + DigitVal(Head(s)))

\* parseInt(v): leading blanks, an optional sign, then the longest run of
\* decimal digits; NaN when there is no digit
ParseInt(v) ==
    LET str == SkipSpaces(ToStr(v).s)
        neg == Len(str) > 0 /\ Head(str) = "-"
        signed == Len(str) > 0 /\ Head(str) \in {"-", "+"}
        body == IF signed THEN Tail(str) ELSE str
        digits == DigitPrefix(body)
    IN  IF Len(digits) = 0 THEN NaN
        ELSE IF neg THEN N(0 - CharsToNat(digits, 0))
        ELSE N(CharsToNat(digits, 0))

\* Math.max(...ns) for a non-empty list: NaN if any argument is NaN
MathMax(ns) ==
    IF \E i \in 1..Len(ns) : ns[i].t = "nan" THEN NaN
    ELSE N(CHOOSE m \in {ns[i].n : i \in 1..Len(ns)} :
               \A i \in 1..Len(ns) : ns[i].n <= m)

\* v + 1
PlusOne(v) == IF v.t = "nan" THEN NaN ELSE N(v.n + 1)

ToLowerChar(c) ==
    CASE c = "A" -> "a"
      [] c = "B" -> "b"
      [] c = "C" -> "c"
      [] OTHER -> c

\* String.prototype.toLowerCase
ToLowerCase(s) == [i \in 1..Len(s) |-> ToLowerChar(s[i])]

\* String.prototype.includes
Includes(s, q) ==
    \E i \in 0..(Len(s) - Len(q)) : \A j \in 1..Len(q) : s[i + j] = q[j]

\* the smallest member of a set of positions; 0 (for -1) when it is empty
FirstOf(positions) ==
    IF positions = {} THEN 0
    ELSE CHOOSE i \in positions : \A j \in positions : i <= j

\* coll.findIndex(e => e.id === id), 1-based; coll.find(...) is the entity there
FindIndexById(coll, id) ==
    FirstOf({i \in 1..Len(coll) : StrictEq(Get(coll[i], "id"), id)})

MsPerDay == 86400000

\* new Date().toISOString() of a clock reading in milliseconds: the calendar
\* date (as a day number), "T", the time of day
IsoString(clock) ==
    NatToChars(clock \div MsPerDay) \o <<"T">> \o NatToChars(clock % MsPerDay)

\* s.split('T')[0]
RECURSIVE SplitT0(_)
SplitT0(s) ==
    IF Len(s) = 0 \/ Head(s) = "T" THEN <<>> ELSE <<Head(s)>> \o SplitT0(Tail(s))

\* JSON.stringify then JSON.parse of one value: NaN becomes null
JsonValue(v) == IF v.t = "nan" THEN [t |-> "null"] ELSE v

\* JSON.stringify then JSON.parse of one object: undefined members vanish
JsonObject(o) ==
    [k \in {k \in DOMAIN o : o[k].t # "undef"} |-> JsonValue(o[k])]

\* JSON.stringify then JSON.parse of a list of objects
JsonList(coll) == [i \in 1..Len(coll) |-> JsonObject(coll[i])]

\* a writeData that adds to the file instead of replacing it
WriteDataAppend(stored, list) == stored \o JsonList(list)

\* writeData followed by the next readData: the file is replaced as a whole
\* by the serialised in-memory list, whatever it stored before
WriteData(stored, list) == JsonList(list)

----------------------------------------------------------------------------
(* Request router: routes in registration order, first match wins *)

Lit(s) == [k |-> "lit", s |-> s]
Param(s) == [k |-> "param", s |-> s]

segApi == <<"a", "p", "i">>
segBooks == <<"b", "o", "o", "k", "s">>
segBook == <<"b", "o", "o", "k">>
segReviews == <<"r", "e", "v", "i", "e", "w", "s">>
segFeatured == <<"f", "e", "a", "t", "u", "r", "e", "d">>
segSearch == <<"s", "e", "a", "r", "c", "h">>
segTopRated == <<"t", "o", "p", "-", "r", "a", "t", "e", "d">>
segDateRange == <<"d", "a", "t", "e", "-", "r", "a", "n", "g", "e">>
segId == <<"i", "d">>

Route(m, p, h) == [method |-> m, pattern |-> p, handler |-> h]

\* the routes with GET /api/books/:id registered ahead of the literal paths
RoutesIdFirst == <<
    Route("GET", <<>>, "root"),
    Route("GET", <<Lit(segApi), Lit(segBooks), Param(segId)>>, "getBookById"),
    Route("GET", <<Lit(segApi), Lit(segBooks), Lit(segFeatured)>>, "getFeatured"),
    Route("GET", <<Lit(segApi), Lit(segBooks), Lit(segSearch)>>, "searchBooks"),
    Route("GET", <<Lit(segApi), Lit(segBooks)>>, "getBooks"),
    Route("POST", <<Lit(segApi), Lit(segBooks)>>, "postBook"),
    Route("PUT", <<Lit(segApi), Lit(segBooks), Param(segId)>>, "putBook"),
    Route("DELETE", <<Lit(segApi), Lit(segBooks), Param(segId)>>, "deleteBook"),
    Route("GET", <<Lit(segApi), Lit(segReviews)>>, "getReviews"),
    Route("GET", <<Lit(segApi), Lit(segReviews), Lit(segBook), Param(segId)>>,
          "getReviewsByBook"),
    Route("POST", <<Lit(segApi), Lit(segReviews)>>, "postReview"),
    Route("PUT", <<Lit(segApi), Lit(segReviews), Param(segId)>>, "putReview"),
    Route("DELETE", <<Lit(segApi), Lit(segReviews), Param(segId)>>, "deleteReview") >>

\* the app.get / app.post / app.put / app.delete calls, top to bottom
Routes == <<
    Route("GET", <<>>, "root"),
    Route("GET", <<Lit(segApi), Lit(segBooks), Lit(segFeatured)>>, "getFeatured"),
    Route("GET", <<Lit(segApi), Lit(segBooks), Lit(segSearch)>>, "searchBooks"),
    Route("GET", <<Lit(segApi), Lit(segBooks)>>, "getBooks"),
    Route("GET", <<Lit(segApi), Lit(segBooks), Param(segId)>>, "getBookById"),
    Route("POST", <<Lit(segApi), Lit(segBooks)>>, "postBook"),
    Route("PUT", <<Lit(segApi), Lit(segBooks), Param(segId)>>, "putBook"),
    Route("DELETE", <<Lit(segApi), Lit(segBooks), Param(segId)>>, "deleteBook"),
    Route("GET", <<Lit(segApi), Lit(segReviews)>>, "getReviews"),
    Route("GET", <<Lit(segApi), Lit(segReviews), Lit(segBook), Param(segId)>>,
          "getReviewsByBook"),
    Route("POST", <<Lit(segApi), Lit(segReviews)>>, "postReview"),
    Route("PUT", <<Lit(segApi), Lit(segReviews), Param(segId)>>, "putReview"),
    Route("DELETE", <<Lit(segApi), Lit(segReviews), Param(segId)>>, "deleteReview") >>

\* a path matches a pattern segment by segment; literals match regardless
\* of case, a parameter matches any one segment
Matches(route, method, path) ==
    /\ route.method = method
    /\ Len(route.pattern) = Len(path)
    /\ \A i \in 1..Len(path) :
          route.pattern[i].k = "lit" =>
              ToLowerCase(route.pattern[i].s) = ToLowerCase(path[i])

\* the handler the router dispatches to; "none" is the framework's own 404
Resolve(method, path) ==
    LET i == FirstOf({i \in 1..Len(Routes) : Matches(Routes[i], method, path)})
    IN  IF i = 0 THEN "none" ELSE Routes[i].handler

\* req.params.id of a three- or four-segment path
ParamId(path) == S(path[Len(path)])

\* what a handler leaves behind: the response it sends and its in-memory
\* data.books / data.reviews
Response(status, out, coll) == [status |-> status, out |-> out, coll |-> coll]

\* the handlers call writeData only on their way to a 200 or 201 of a
\* mutating request
Persist(stored, r) ==
    IF r.status \in {200, 201} THEN WriteData(stored, r.coll) ELSE stored

Message(m) == [message |-> m]

----------------------------------------------------------------------------
(* Books handlers, as functions of the stored collection and the request *)

\* GET /api/books/featured
GetFeatured(coll) ==
    Response(200,
             JsonList(SelectSeq(coll, LAMBDA b : StrictEq(Get(b, "featured"), B(TRUE)))),
             coll)

ErrorBody(m) == [error |-> m]

\* req.query.q?.toLowerCase()
QueryLower(q) == IF q.t = "undef" THEN Undef ELSE S(ToLowerCase(q.s))

\* tags.some(tag => tag.toLowerCase().includes(query)), stopping at the
\* first tag that matches or cannot be lower-cased
RECURSIVE SomeTag(_, _)
SomeTag(tags, query) ==
    IF Len(tags) = 0 THEN "no"
    ELSE IF Head(tags).t # "str" THEN "throw"
    ELSE IF Includes(ToLowerCase(Head(tags).s), query) THEN "yes"
    ELSE SomeTag(Tail(tags), query)

\* the filter predicate of the search: "yes", "no", or "throw" when a
\* member that is dereferenced is not a string / not an array
BookMatches(book, query) ==
    LET title == Get(book, "title")
        author == Get(book, "author")
        tags == Get(book, "tags")
    IN  IF title.t # "str" THEN "throw"
        ELSE IF Includes(ToLowerCase(title.s), query) THEN "yes"
        ELSE IF author.t # "str" THEN "throw"
        ELSE IF Includes(ToLowerCase(author.s), query) THEN "yes"
        ELSE IF tags.t # "arr" THEN "throw"
        ELSE SomeTag(tags.a, query)

\* GET /api/books/search
SearchBooks(coll, q) ==
    LET query == QueryLower(q)
    IN  IF ~Truthy(query)
             THEN Response(400, ErrorBody("Query parameter 'q' is required"), coll)
        ELSE IF \E i \in 1..Len(coll) : BookMatches(coll[i], query.s) = "throw"
             THEN Response(500, ErrorBody("TypeError"), coll)
        ELSE Response(200,
                      JsonList(SelectSeq(coll, LAMBDA b : BookMatches(b, query.s) = "yes")),
                      coll)

\* GET /api/books
GetBooks(coll) == Response(200, JsonList(coll), coll)

\* GET /api/books/:id
GetBookById(coll, id) ==
    LET i == FindIndexById(coll, id)
    IN  IF i = 0 THEN Response(404, Message("Book not found"), coll)
        ELSE Response(200, JsonObject(coll[i]), coll)

\* the id generation of POST /api/books
NextId(coll) ==
    LET ids == [i \in 1..Len(coll) |-> ParseInt(Get(coll[i], "id"))]
        maxId == IF Len(ids) > 0 THEN MathMax(ids) ELSE N(0)
    IN  NumToString(PlusOne(maxId))

\* the object literal newBook of POST /api/books
NewBook(coll, body, clock) ==
    Spread(Spread([id |-> NextId(coll)], body),
           [datePublished |->
               IF Truthy(Get(body, "datePublished")) THEN Get(body, "datePublished")
               ELSE S(SplitT0(IsoString(clock)))])

\* POST /api/books
PostBook(coll, body, clock) ==
    LET newBook == NewBook(coll, body, clock)
    IN  Response(201, JsonObject(newBook), Append(coll, newBook))

\* the merge of PUT /api/books/:id and PUT /api/reviews/:id
MergeAt(coll, index, body) ==
    [coll EXCEPT ![index] = Spread(coll[index], body)]

\* PUT /api/books/:id
PutBook(coll, id, body) ==
    LET index == FindIndexById(coll, id)
    IN  IF index = 0 THEN Response(404, Message("Book not found"), coll)
        ELSE Response(200, JsonObject(MergeAt(coll, index, body)[index]),
                      MergeAt(coll, index, body))

\* DELETE /api/books/:id
DeleteBook(coll, id) ==
    LET filteredBooks == SelectSeq(coll, LAMBDA b : ~StrictEq(Get(b, "id"), id))
    IN  IF Len(filteredBooks) = Len(coll)
        THEN Response(404, Message("Book not found"), coll)
        ELSE Response(200, Message("Book deleted successfully"), filteredBooks)

----------------------------------------------------------------------------
(* Reviews handlers *)

reviewPrefix == <<"r", "e", "v", "i", "e", "w", "-">>

\* GET /api/reviews
GetReviews(coll) == Response(200, JsonList(coll), coll)

\* GET /api/reviews/book/:id
GetReviewsByBook(coll, id) ==
    Response(200, JsonList(SelectSeq(coll, LAMBDA r : StrictEq(Get(r, "bookId"), id))), coll)

\* the object literal newReview of POST /api/reviews
NewReview(body, clock) ==
    Spread([id |-> S(reviewPrefix \o NatToChars(clock)),
            timestamp |-> S(IsoString(clock)),
            verified |-> B(FALSE)],
           body)

\* the "basic validation" of POST /api/reviews
ReviewValid(newReview) ==
    ~(~Truthy(Get(newReview, "bookId")) \/ ~Truthy(Get(newReview, "rating")))

\* POST /api/reviews
PostReview(coll, body, clock) ==
    LET newReview == NewReview(body, clock)
    IN  IF ~ReviewValid(newReview)
        THEN Response(400, Message("bookId and rating are required"), coll)
        ELSE Response(201, JsonObject(newReview), Append(coll, newReview))

\* PUT /api/reviews/:id
PutReview(coll, id, body) ==
    LET index == FindIndexById(coll, id)
    IN  IF index = 0 THEN Response(404, Message("Review not found"), coll)
        ELSE Response(200, JsonObject(MergeAt(coll, index, body)[index]),
                      MergeAt(coll, index, body))

\* a delete that removes the first review with the id and no other
DeleteReviewFirst(coll, id) ==
    LET index == FindIndexById(coll, id)
    IN  IF index = 0 THEN Response(404, Message("Review not found"), coll)
        ELSE Response(200, Message("Review deleted successfully"),
                      [i \in 1..(Len(coll) - 1) |->
                          IF i < index THEN coll[i] ELSE coll[i + 1]])

\* DELETE /api/reviews/:id
DeleteReview(coll, id) ==
    LET filteredReviews == SelectSeq(coll, LAMBDA r : ~StrictEq(Get(r, "id"), id))
    IN  IF Len(filteredReviews) = Len(coll)
        THEN Response(404, Message("Review not found"), coll)
        ELSE Response(200, Message("Review deleted successfully"), filteredReviews)

----------------------------------------------------------------------------
(* Requests the clients send *)

InitBook1 ==
    [id |-> S(<<"1">>), title |-> S(<<"A", "b">>), author |-> S(<<"c">>),
     tags |-> Arr(<<S(<<"B">>)>>), featured |-> B(TRUE), datePublished |-> S(<<"0">>)]

InitBook2 ==
    [id |-> S(<<"2">>), title |-> S(<<"b">>), author |-> S(<<"a">>),
     tags |-> Arr(<<>>), featured |-> B(FALSE), datePublished |-> S(<<"0">>)]

InitBooks == {<<>>, <<InitBook1>>, <<InitBook1, InitBook2>>}

InitReview1 ==
    [id |-> S(reviewPrefix \o <<"0">>), bookId |-> S(<<"1">>), rating |-> N(5),
     timestamp |-> S(IsoString(0)), verified |-> B(TRUE)]

InitReviews == {<<>>, <<InitReview1>>}

CreateBookBodies ==
    { [title |-> S(<<"A", "b">>), author |-> S(<<"c">>)],
      [id |-> S(<<"1">>), title |-> S(<<"c">>), author |-> S(<<"a">>),
       tags |-> Arr(<<S(<<"C">>)>>), datePublished |-> S(<<"0">>)] }

UpdateBookBodies ==
    { [title |-> S(<<"c">>)],
      [id |-> S(<<"2">>)] }

Queries ==
    { Undef, S(<<>>), S(<<"a">>), S(<<"B">>), S(<<"z">>) }

CreateReviewBodies ==
    { [bookId |-> S(<<"1">>), rating |-> N(5)],
      [bookId |-> S(<<"1">>), rating |-> N(0)],
      [rating |-> N(4)],
      [id |-> S(reviewPrefix \o <<"0">>), bookId |-> S(<<"2">>), rating |-> N(3),
       timestamp |-> S(<<"x">>)] }

UpdateReviewBodies ==
    { [rating |-> N(1)],
      [id |-> S(reviewPrefix \o <<"1">>), timestamp |-> S(<<"x">>)] }

LiteralSegs == {segFeatured, segSearch, segTopRated, segDateRange}

\* the ids of a collection as they are written in a URL, and one id that
\* no entity has
IdSegs(coll) == {ToStr(Get(coll[i], "id")).s : i \in 1..Len(coll)} \cup {<<"9">>}

BookIdSegs(coll) ==
    IdSegs(coll) \cup {ToStr(Get(coll[i], "bookId")).s : i \in 1..Len(coll)}

NoRequest ==
    [handler |-> "none", method |-> "GET", path |-> <<>>, body |-> EmptyObj,
     q |-> Undef, status |-> 0, out |-> EmptyObj, pre |-> <<>>]

Served(h, method, path, body, q, r, pre) ==
    [handler |-> h, method |-> method, path |-> path, body |-> body, q |-> q,
     status |-> r.status, out |-> r.out, pre |-> pre]

Idle == <<pc, req, data, resp, hist>>

----------------------------------------------------------------------------
(* The server handling one request at a time *)

BookHandlers ==
    {"getFeatured", "searchBooks", "getBooks", "getBookById", "postBook", "putBook",
     "deleteBook"}

ReviewHandlers ==
    {"getReviews", "getReviewsByBook", "postReview", "putReview", "deleteReview"}

\* No handler touches both documents, so every value either document can
\* take is reached by clients that address that document only: a run serves
\* requests for one of the two documents.
BooksSession == last.handler \in BookHandlers \cup {"none"}
ReviewsSession == last.handler \in ReviewHandlers \cup {"none"}
RootSession == last.handler \in {"none", "root"}

Init ==
    /\ books \in InitBooks
    /\ reviews \in InitReviews
    /\ now = 1
    /\ last = NoRequest
    /\ pc = <<>>
    /\ req = <<>>
    /\ data = <<>>
    /\ resp = <<>>
    /\ hist = <<>>

\* the clock advances between requests
Tick ==
    /\ now < MaxClock
    /\ now' = now + 1
    /\ UNCHANGED <<books, reviews, last, Idle>>

Root ==
    /\ RootSession
    /\ Resolve("GET", <<>>) = "root"
    /\ last' = Served("root", "GET", <<>>, EmptyObj, Undef,
                      Response(200,
                               S(<<"H", "e", "l", "l", "o", " ", "W", "o", "r", "l", "d", "!">>),
                               <<>>),
                      <<>>)
    /\ UNCHANGED <<books, reviews, now, Idle>>

GetFeaturedReq ==
    LET path == <<segApi, segBooks, segFeatured>>
    IN  /\ BooksSession
        /\ Resolve("GET", path) = "getFeatured"
        /\ last' = Served("getFeatured", "GET", path, EmptyObj, Undef,
                          GetFeatured(books), books)
        /\ UNCHANGED <<books, reviews, now, Idle>>

SearchBooksReq ==
    \E q \in Queries :
        LET path == <<segApi, segBooks, segSearch>>
        IN  /\ BooksSession
            /\ Resolve("GET", path) = "searchBooks"
            /\ last' = Served("searchBooks", "GET", path, EmptyObj, q,
                              SearchBooks(books, q), books)
            /\ UNCHANGED <<books, reviews, now, Idle>>

GetBooksReq ==
    LET path == <<segApi, segBooks>>
    IN  /\ BooksSession
        /\ Resolve("GET", path) = "getBooks"
        /\ last' = Served("getBooks", "GET", path, EmptyObj, Undef,
                          GetBooks(books), books)
        /\ UNCHANGED <<books, reviews, now, Idle>>

GetBookByIdReq ==
    \E seg \in IdSegs(books) \cup LiteralSegs :
        LET path == <<segApi, segBooks, seg>>
        IN  /\ BooksSession
            /\ Resolve("GET", path) = "getBookById"
            /\ last' = Served("getBookById", "GET", path, EmptyObj, Undef,
                              GetBookById(books, ParamId(path)), books)
            /\ UNCHANGED <<books, reviews, now, Idle>>

PostBookReq ==
    \E body \in CreateBookBodies :
        LET path == <<segApi, segBooks>>
            r == PostBook(books, body, now)
        IN  /\ BooksSession
            /\ Resolve("POST", path) = "postBook"
            /\ Len(books) < MaxBooks
            /\ ParseInt(NextId(books)).t = "num" => ParseInt(NextId(books)).n <= MaxId
            /\ books' = Persist(books, r)
            /\ last' = Served("postBook", "POST", path, body, Undef, r, books)
            /\ UNCHANGED <<reviews, now, Idle>>

PutBookReq ==
    \E seg \in IdSegs(books), body \in UpdateBookBodies :
        LET path == <<segApi, segBooks, seg>>
            r == PutBook(books, ParamId(path), body)
        IN  /\ BooksSession
            /\ Resolve("PUT", path) = "putBook"
            /\ books' = Persist(books, r)
            /\ last' = Served("putBook", "PUT", path, body, Undef, r, books)
            /\ UNCHANGED <<reviews, now, Idle>>

DeleteBookReq ==
    \E seg \in IdSegs(books) :
        LET path == <<segApi, segBooks, seg>>
            r == DeleteBook(books, ParamId(path))
        IN  /\ BooksSession
            /\ Resolve("DELETE", path) = "deleteBook"
            /\ books' = Persist(books, r)
            /\ last' = Served("deleteBook", "DELETE", path, EmptyObj, Undef, r, books)
            /\ UNCHANGED <<reviews, now, Idle>>

GetReviewsReq ==
    LET path == <<segApi, segReviews>>
    IN  /\ ReviewsSession
        /\ Resolve("GET", path) = "getReviews"
        /\ last' = Served("getReviews", "GET", path, EmptyObj, Undef,
                          GetReviews(reviews), reviews)
        /\ UNCHANGED <<books, reviews, now, Idle>>

GetReviewsByBookReq ==
    \E seg \in BookIdSegs(reviews) :
        LET path == <<segApi, segReviews, segBook, seg>>
        IN  /\ ReviewsSession
            /\ Resolve("GET", path) = "getReviewsByBook"
            /\ last' = Served("getReviewsByBook", "GET", path, EmptyObj, Undef,
                              GetReviewsByBook(reviews, ParamId(path)), reviews)
            /\ UNCHANGED <<books, reviews, now, Idle>>

PostReviewReq ==
    \E body \in CreateReviewBodies :
        LET path == <<segApi, segReviews>>
            r == PostReview(reviews, body, now)
        IN  /\ ReviewsSession
            /\ Resolve("POST", path) = "postReview"
            /\ Len(reviews) < MaxReviews
            /\ reviews' = Persist(reviews, r)
            /\ last' = Served("postReview", "POST", path, body, Undef, r, reviews)
            /\ UNCHANGED <<books, now, Idle>>

PutReviewReq ==
    \E seg \in IdSegs(reviews), body \in UpdateReviewBodies :
        LET path == <<segApi, segReviews, seg>>
            r == PutReview(reviews, ParamId(path), body)
        IN  /\ ReviewsSession
            /\ Resolve("PUT", path) = "putReview"
            /\ reviews' = Persist(reviews, r)
            /\ last' = Served("putReview", "PUT", path, body, Undef, r, reviews)
            /\ UNCHANGED <<books, now, Idle>>

DeleteReviewReq ==
    \E seg \in IdSegs(reviews) :
        LET path == <<segApi, segReviews, seg>>
            r == DeleteReview(reviews, ParamId(path))
        IN  /\ ReviewsSession
            /\ Resolve("DELETE", path) = "deleteReview"
            /\ reviews' = Persist(reviews, r)
            /\ last' = Served("deleteReview", "DELETE", path, EmptyObj, Undef, r, reviews)
            /\ UNCHANGED <<books, now, Idle>>

Next ==
    \/ Tick
    \/ Root
    \/ GetFeaturedReq
    \/ SearchBooksReq
    \/ GetBooksReq
    \/ GetBookByIdReq
    \/ PostBookReq
    \/ PutBookReq
    \/ DeleteBookReq
    \/ GetReviewsReq
    \/ GetReviewsByBookReq
    \/ PostReviewReq
    \/ PutReviewReq
    \/ DeleteReviewReq

Spec == Init /\ [][Next]_vars

\* the mutating requests only
CrudNext ==
    \/ Tick
    \/ PostBookReq
    \/ PutBookReq
    \/ DeleteBookReq
    \/ PostReviewReq
    \/ PutReviewReq
    \/ DeleteReviewReq

SpecCrud == Init /\ [][CrudNext]_vars

\* the GET requests only
RouterNext ==
    \/ Tick
    \/ Root
    \/ GetFeaturedReq
    \/ SearchBooksReq
    \/ GetBooksReq
    \/ GetBookByIdReq
    \/ GetReviewsReq
    \/ GetReviewsByBookReq

SpecRouter == Init /\ [][RouterNext]_vars

----------------------------------------------------------------------------
(* Two requests on the books document served concurrently.  A handler     *)
(* runs from one await to the next without interruption: it suspends in    *)
(* `await readData` and in `await writeData`, and other requests run in    *)
(* between.                                                                *)

Requests == {"r1", "r2"}

NoBookRequest == [handler |-> "none", path |-> <<>>, body |-> EmptyObj]

NoResponse == [status |-> 0, out |-> EmptyObj]

InitConc ==
    /\ books \in InitBooks
    /\ reviews = <<>>
    /\ now = 1
    /\ last = NoRequest
    /\ pc = [p \in Requests |-> "idle"]
    /\ req = [p \in Requests |-> NoBookRequest]
    /\ data = [p \in Requests |-> <<>>]
    /\ resp = [p \in Requests |-> NoResponse]
    /\ hist = <<>>

ConcurrentCreateBodies ==
    CreateBookBodies \cup {[title |-> S(<<"b">>), author |-> S(<<"c">>), tags |-> Arr(<<>>)]}

\* the mutating requests on books a client may send, given what it sees
BookMutations(coll) ==
    {[handler |-> "postBook", path |-> <<segApi, segBooks>>, body |-> b] :
        b \in {b \in ConcurrentCreateBodies : Len(coll) < MaxBooks}}
    \cup {[handler |-> "putBook", path |-> <<segApi, segBooks, seg>>, body |-> b] :
        seg \in IdSegs(coll), b \in UpdateBookBodies}
    \cup {[handler |-> "deleteBook", path |-> <<segApi, segBooks, seg>>,
           body |-> EmptyObj] : seg \in IdSegs(coll)}

MethodOf(handler) ==
    CASE handler = "postBook" -> "POST"
      [] handler = "putBook" -> "PUT"
      [] handler = "deleteBook" -> "DELETE"

\* the handler body between `await readData` and `await writeData`
RunHandler(r, coll, clock) ==
    CASE r.handler = "postBook" -> PostBook(coll, r.body, clock)
      [] r.handler = "putBook" -> PutBook(coll, ParamId(r.path), r.body)
      [] r.handler = "deleteBook" -> DeleteBook(coll, ParamId(r.path))

\* the router dispatches a request; the handler starts and suspends in
\* `await readData(BOOKS_FILE)`
Receive(p) ==
    /\ pc[p] = "idle"
    /\ \E r \in BookMutations(books) :
          /\ Resolve(MethodOf(r.handler), r.path) = r.handler
          /\ req' = [req EXCEPT ![p] = r]
    /\ pc' = [pc EXCEPT ![p] = "reading"]
    /\ UNCHANGED <<books, reviews, now, last, data, resp, hist>>

\* readData returns the document as it is now; the handler computes its
\* change on that copy and either answers 404 or suspends in
\* `await writeData(BOOKS_FILE, data)`
ReadDone(p) ==
    /\ pc[p] = "reading"
    /\ LET r == RunHandler(req[p], books, now)
       IN  /\ data' = [data EXCEPT ![p] = r.coll]
           /\ resp' = [resp EXCEPT ![p] = [status |-> r.status, out |-> r.out]]
           /\ pc' = [pc EXCEPT ![p] = IF r.status \in {200, 201} THEN "writing" ELSE "done"]
    /\ hist' = Append(hist, [ev |-> "read", p |-> p, doc |-> books])
    /\ UNCHANGED <<books, reviews, now, last, req>>

\* writeData replaces the file by the handler's copy; the response is sent
WriteDone(p) ==
    /\ pc[p] = "writing"
    /\ books' = WriteData(books, data[p])
    /\ pc' = [pc EXCEPT ![p] = "done"]
    /\ hist' = Append(hist, [ev |-> "write", p |-> p, doc |-> data[p]])
    /\ UNCHANGED <<reviews, now, last, req, data, resp>>

NextConc == \E p \in Requests : Receive(p) \/ ReadDone(p) \/ WriteDone(p)

SpecConc == InitConc /\ [][NextConc]_vars

----------------------------------------------------------------------------
(* Properties of the server handling one request at a time *)

IdOf(e) == Get(e, "id")

IsDecimal(v) ==
    /\ v.t = "str"
    /\ Len(v.s) > 0
    /\ \A i \in 1..Len(v.s) : IsDigit(v.s[i])

Created == last.handler = "postBook" /\ last.status = 201

\* C1: the id a successful POST /api/books returns is the decimal string of
\* an integer strictly greater than the integer value of every id that was
\* in the collection before the request, whatever the payload holds.
C1_CreatedIdAboveAll ==
    Created =>
        /\ IsDecimal(IdOf(last.out))
        /\ \A i \in 1..Len(last.pre) :
              /\ ParseInt(IdOf(last.pre[i])).t = "num"
              /\ ParseInt(IdOf(last.pre[i])).n < ParseInt(IdOf(last.out)).n

Updated == last.handler = "putBook" /\ last.status = 200

\* C2: after PUT /api/books/:id on an existing book the id of the returned
\* book and of the persisted book (the one at the position of the book that
\* was updated) equals the path parameter.
C2_UpdateKeepsId ==
    Updated =>
        LET id == ParamId(last.path)
            index == FirstOf({i \in 1..Len(last.pre) : IdOf(last.pre[i]) = id})
        IN  /\ IdOf(last.out) = id
            /\ IdOf(books[index]) = id

\* C3: no two books of the persisted collection have the same id.
C3_UniqueBookIds ==
    \A i, j \in 1..Len(books) : i # j => IdOf(books[i]) # IdOf(books[j])

Deleted == last.handler \in {"deleteBook", "deleteReview"}

\* the collection a delete request addressed, as persisted now
DeletedFrom == IF last.handler = "deleteBook" THEN books ELSE reviews

\* the same delete request served once more
DeleteAgain ==
    IF last.handler = "deleteBook" THEN DeleteBook(books, ParamId(last.path))
    ELSE DeleteReview(reviews, ParamId(last.path))

\* positions of the entities a delete of `id` has to keep
KeptPositions(coll, id) == {i \in 1..Len(coll) : IdOf(coll[i]) # id}

\* coll without the entity at position k
Without(coll, k) == [i \in 1..(Len(coll) - 1) |-> IF i < k THEN coll[i] ELSE coll[i + 1]]

DeleteMisses ==
    KeptPositions(last.pre, ParamId(last.path)) = 1..Len(last.pre)

\* C4 as stated: a delete of an id the collection does not hold answers 404
\* and changes nothing; a delete of an id it holds removes exactly one entity,
\* keeps the others in order, and the same delete again answers 404.
C4_DeleteRemovesExactlyOne ==
    Deleted =>
        IF DeleteMisses
        THEN last.status = 404 /\ DeletedFrom = last.pre
        ELSE /\ last.status = 200
             /\ \E k \in 1..Len(last.pre) : DeletedFrom = Without(last.pre, k)
             /\ DeleteAgain.status = 404

\* C4 as amended: a delete of an id the collection holds removes every
\* entity with that id (at least one), keeps all the others in order, and
\* the same delete again answers 404; a miss answers 404 and changes nothing.
C4_DeleteRemovesEveryMatch ==
    Deleted =>
        LET kept == KeptPositions(last.pre, ParamId(last.path))
            after == DeletedFrom
        IN  IF DeleteMisses
            THEN last.status = 404 /\ after = last.pre
            ELSE /\ last.status = 200
                 /\ Len(after) = Cardinality(kept)
                 /\ Len(after) < Len(last.pre)
                 /\ \A j \in 1..Len(after) :
                       \E i \in kept :
                           /\ Cardinality({h \in kept : h <= i}) = j
                           /\ after[j] = last.pre[i]
                 /\ DeleteAgain.status = 404

\* a delete that removed two reviews carrying the same id
C4_Witness ==
    /\ last.handler = "deleteReview"
    /\ last.status = 200
    /\ Len(last.pre) - Len(reviews) = 2

\* v holds the query as a substring, case-insensitively
Contains(v, q) == v.t = "str" /\ Includes(ToLowerCase(v.s), ToLowerCase(q.s))

ContainsQuery(book, q) ==
    \/ Contains(Get(book, "title"), q)
    \/ Contains(Get(book, "author"), q)
    \/ /\ Get(book, "tags").t = "arr"
       /\ \E i \in 1..Len(Get(book, "tags").a) : Contains(Get(book, "tags").a[i], q)

\* C5: a search with an absent or empty q answers 400; any other search
\* answers 200 with exactly the books whose title, author or some tag holds q
\* case-insensitively, in storage order (empty when none does); never 500.
C5_SearchNever500 ==
    last.handler = "searchBooks" =>
        IF last.q.t = "undef" \/ last.q = S(<<>>)
        THEN last.status = 400
        ELSE /\ last.status = 200
             /\ last.out = SelectSeq(last.pre, LAMBDA b : ContainsQuery(b, last.q))

\* C6: a GET /api/books/:id with the id a successful create returned answers
\* 200 with an entity equal to the one the create returned.
C6_CreateThenGet ==
    Created =>
        LET got == GetBookById(books, ToStr(IdOf(last.out)))
        IN  got.status = 200 /\ got.out = last.out

\* C7: POST /api/reviews answers 400 and changes nothing when the merged
\* entity has no bookId or no rating; when it has both, whatever their
\* values (a rating of 0 included), the review is appended last and
\* returned with 201.
C7_ReviewNeedsPresence ==
    last.handler = "postReview" =>
        IF {"bookId", "rating"} \subseteq DOMAIN NewReview(last.body, now)
        THEN /\ last.status = 201
             /\ Len(reviews) = Len(last.pre) + 1
             /\ SubSeq(reviews, 1, Len(last.pre)) = last.pre
             /\ reviews[Len(reviews)] = last.out
        ELSE last.status = 400 /\ reviews = last.pre

RouteOf(seg) ==
    CASE seg = segFeatured -> "getFeatured"
      [] seg = segSearch -> "searchBooks"
      [] seg = segTopRated -> "getTopRated"
      [] seg = segDateRange -> "getDateRange"

LiteralRequest(segs) ==
    /\ last.method = "GET"
    /\ Len(last.path) = 3
    /\ last.path[1] = segApi
    /\ last.path[2] = segBooks
    /\ last.path[3] \in segs

C9_TimestampFixed ==
    (last.handler = "putReview" /\ last.status = 200) =>
        /\ Len(reviews) = Len(last.pre)
        /\ \A i \in 1..Len(reviews) :
              Get(reviews[i], "timestamp") = Get(last.pre[i], "timestamp")

----------------------------------------------------------------------------
(* Properties of two requests served concurrently *)

Event(ev, p) == CHOOSE i \in 1..Len(hist) : hist[i].ev = ev /\ hist[i].p = p

Succeeded(p) == pc[p] = "done" /\ resp[p].status \in {200, 201}

\* p and q both answered success, q read the document before p wrote it
\* and q wrote after p
Overwrites(q, p) ==
    /\ p # q
    /\ Succeeded(p)
    /\ Succeeded(q)
    /\ Event("read", q) < Event("write", p)
    /\ Event("write", p) < Event("write", q)

\* the document q read
DocRead(q) == hist[Event("read", q)].doc

PlainCreate(p) == req[p].handler = "postBook" /\ "id" \notin DOMAIN req[p].body

\* C10: when two mutating requests overlap (the later writer read before
\* the earlier writer wrote) and both answer success, the persisted document
\* is the later writer's change applied to the document it read, which
\* lacks the earlier writer's change; two such creates of payloads without
\* an id are answered with the same id and leave one new book, not two.
C10_LastWriterWins ==
    \A p, q \in Requests :
        Overwrites(q, p) =>
            /\ books = JsonList(RunHandler(req[q], DocRead(q), now).coll)
            /\ (PlainCreate(p) /\ PlainCreate(q)) =>
                  /\ IdOf(resp[p].out) = IdOf(resp[q].out)
                  /\ Len(books) = Len(DocRead(q)) + 1

\* two creates with different payloads, both answered 201 with the same
\* id, of which only the one written last is in the document
C10_Witness ==
    \E p, q \in Requests :
        /\ Overwrites(q, p)
        /\ PlainCreate(p)
        /\ PlainCreate(q)
        /\ resp[p].status = 201
        /\ resp[q].status = 201
        /\ req[p].body # req[q].body
        /\ IdOf(resp[p].out) = IdOf(resp[q].out)
        /\ \A i \in 1..Len(books) : books[i] # resp[p].out
        /\ \E i \in 1..Len(books) : books[i] = resp[q].out

====
